---- MODULE Spec2Model ----
(***************************************************************************)
(* Model of generator/main.py: the batch recipe generator.  main() loads   *)
(* the system message and recipes.yml, process_recipes loops over the work *)
(* items (skip when the target file exists, otherwise one completion call  *)
(* and one write_text), and update_mkdocs_nav rewrites the nav field of    *)
(* mkdocs.yml.  The file system (docs/*, mkdocs.yml) persists between runs *)
(* of main(); everything else is local to one run.                         *)
(***************************************************************************)
EXTENDS Integers, Sequences, FiniteSets, TLC

\* ---------------------------------------------------------------- bounds
MaxItems == 2
MaxRuns == 2

\* ------------------------------------------------------------ input data
\* Python's None: what dict.get returns for a key the item does not have.
NoneVal == "None"

\* Names of the files a work item can target under docs/.
Filenames == {"f1.md", "f2.md"}

\* Title and prompt of the item at position j (distinct per position).
ItemTitles == <<"t1", "t2", "t3", "t4">>
ItemPrompts == <<"p1", "p2", "p3", "p4">>

\* The items recipes.yml can hold at position j: complete, or lacking
\* exactly one of title, filename, prompt.
ItemsAt(j) ==
    {[title |-> ItemTitles[j], filename |-> f, prompt |-> ItemPrompts[j]] : f \in Filenames}
    \cup {[title |-> NoneVal, filename |-> f, prompt |-> ItemPrompts[j]] : f \in Filenames}
    \cup {[title |-> ItemTitles[j], filename |-> f, prompt |-> NoneVal] : f \in Filenames}
    \cup {[title |-> ItemTitles[j], filename |-> NoneVal, prompt |-> ItemPrompts[j]]}

AllItems == UNION {ItemsAt(j) : j \in 1..MaxItems}

WorkLists ==
    UNION {{l \in [1..n -> AllItems] : \A j \in 1..n : l[j] \in ItemsAt(j)} : n \in 0..MaxItems}

\* What yaml.safe_load(recipes.yml) can return: a list of items, a dict, None.
RecipesDocs ==
    {[kind |-> "list", items |-> l] : l \in WorkLists}
    \cup {[kind |-> "dict", items |-> <<>>], [kind |-> "null", items |-> <<>>]}

\* Content of an output file that was on disk before the first run.
OldText == <<"old">>
Absent == [exists |-> FALSE, text |-> <<>>]
OnDisk(t) == [exists |-> TRUE, text |-> t]

\* mkdocs.yml as written on disk: a YAML mapping (key/value pairs in document
\* order, a key may be repeated), a top-level list, or an empty document.
OldNav == << <<"Old", "old.md">> >>
SiteName == << <<"value", "Azure AI Bites">> >>
Theme == << <<"name", "material">> >>
MkdocsDocs ==
    { [kind |-> "map", pairs |-> << <<"site_name", SiteName>>, <<"nav", OldNav>>, <<"theme", Theme>> >>],
      [kind |-> "map", pairs |-> << <<"site_name", SiteName>>, <<"theme", Theme>>, <<"site_name", Theme>> >>],
      [kind |-> "list", pairs |-> <<>>],
      [kind |-> "empty", pairs |-> <<>>] }

\* system_message.md and system_message_context.md, as token sequences.
BaseFile == <<" ", "You write recipes.", "\n">>
ContextFile == <<"\n", "## sample", " ">>

MODEL_NAME == "gpt-4.1"

VARIABLES
    recipesYml,      \* parsed content of recipes.yml (fixed)
    mkdocs,          \* raw content of mkdocs.yml on disk
    files,           \* docs/<filename> on disk
    run,             \* number of the current run of main()
    pc,              \* position of main(): start, loop, generate, write, nav, done, failed
    system_message,  \* main's local system_message
    i,               \* index of the work item the loop is at
    recipes,         \* process_recipes' local list
    content,         \* the text returned by generate_recipe, to be written
    calls,           \* client.complete calls of this run
    writes,          \* output files opened for writing in this run (item index, filename)
    navWrites,       \* number of times mkdocs.yml was opened for writing in this run
    reached,         \* per item reached in this run: what target_path.exists() saw
    loopDone,        \* process_recipes has returned in this run
    failKind,        \* "none", or the error that aborted this run
    failedAt,        \* index of the item at which the run was aborted (0: none)
    files0,          \* files at the start of this run
    mkdocs0,         \* mkdocs.yml at the start of this run
    prev             \* summary of the previous run

vars == <<recipesYml, mkdocs, files, run, pc, system_message, i, recipes, content, calls,
          writes, navWrites, reached, loopDone, failKind, failedAt, files0, mkdocs0, prev>>

\* -------------------------------------------------------------- helpers
data == recipesYml.items

IsWs(tok) == tok \in {" ", "\n"}

RECURSIVE LStrip(_)
LStrip(s) == IF s # <<>> /\ IsWs(Head(s)) THEN LStrip(Tail(s)) ELSE s

RECURSIVE RStrip(_)
RStrip(s) == IF s # <<>> /\ IsWs(s[Len(s)]) THEN RStrip(SubSeq(s, 1, Len(s) - 1)) ELSE s

Strip(s) == RStrip(LStrip(s))

load_and_combine_system_messages(base, context) ==
    Strip(base) \o <<"\n\n">> \o Strip(context)

\* The text the completion service returns for a prompt.
Completion(prompt) == <<prompt, "body">>

\* Faulty variant of Exists: the existence check always answers "missing".
Exists_Never(f) == FALSE

Exists(f) == files[f].exists

\* d[key] = value on a Python dict kept as pairs in insertion order.
RECURSIVE SetKey(_, _, _)
SetKey(d, key, value) ==
    IF d = <<>> THEN << <<key, value>> >>
    ELSE IF Head(d)[1] = key THEN << <<key, value>> >> \o Tail(d)
    ELSE <<Head(d)>> \o SetKey(Tail(d), key, value)

RECURSIVE ConstructMapping(_, _)
ConstructMapping(pairs, acc) ==
    IF pairs = <<>> THEN acc
    ELSE ConstructMapping(Tail(pairs), SetKey(acc, Head(pairs)[1], Head(pairs)[2]))

load_yaml(raw) ==
    IF raw.kind = "map" THEN [kind |-> "dict", pairs |-> ConstructMapping(raw.pairs, <<>>)]
    ELSE IF raw.kind = "list" THEN [kind |-> "list", pairs |-> <<>>]
    ELSE [kind |-> "null", pairs |-> <<>>]

yaml_dump(d) == [kind |-> "map", pairs |-> d]

NavList(nav_items) == [k \in 1..Len(nav_items) |-> <<nav_items[k].title, nav_items[k].filename>>]

Prefixes(s) == {SubSeq(s, 1, n) : n \in 0..(Len(s) - 1)}

\* ----------------------------------------------------------------- Init
Init ==
    /\ recipesYml \in RecipesDocs
    /\ mkdocs \in MkdocsDocs
    /\ files \in [Filenames -> {Absent, OnDisk(OldText)}]
    /\ run = 1
    /\ pc = "start"
    /\ system_message = <<>>
    /\ i = 1
    /\ recipes = <<>>
    /\ content = <<>>
    /\ calls = <<>>
    /\ writes = <<>>
    /\ navWrites = 0
    /\ reached = <<>>
    /\ loopDone = FALSE
    /\ failKind = "none"
    /\ failedAt = 0
    /\ files0 = files
    /\ mkdocs0 = mkdocs
    /\ prev = [ran |-> FALSE, loopDone |-> FALSE, written |-> {}, ncalls |-> 0]

Abort(kind, at) ==
    /\ pc' = "failed"
    /\ failKind' = kind
    /\ failedAt' = at

\* Faulty variant of Main: the isinstance check on recipes.yml is left out.
Main_NoCheck ==
    /\ pc = "start"
    /\ system_message' = load_and_combine_system_messages(BaseFile, ContextFile)
    /\ pc' = "loop"
    /\ UNCHANGED <<recipesYml, mkdocs, files, run, i, recipes, content, calls, writes,
                   navWrites, reached, loopDone, failKind, failedAt, files0, mkdocs0, prev>>

\* main(), lines 124-139: environment, client, system message, recipes.yml.
Main ==
    /\ pc = "start"
    /\ system_message' = load_and_combine_system_messages(BaseFile, ContextFile)
    /\ IF recipesYml.kind = "list"
       THEN pc' = "loop" /\ UNCHANGED <<failKind, failedAt>>
       ELSE Abort("ValueError", 0)
    /\ UNCHANGED <<recipesYml, mkdocs, files, run, i, recipes, content, calls, writes,
                   navWrites, reached, loopDone, files0, mkdocs0, prev>>

\* Loop head, filename missing: docs_dir / None raises TypeError.
ItemTypeError ==
    /\ pc = "loop"
    /\ i <= Len(data)
    /\ data[i].filename = NoneVal
    /\ Abort("TypeError", i)
    /\ UNCHANGED <<recipesYml, mkdocs, files, run, system_message, i, recipes, content, calls,
                   writes, navWrites, reached, loopDone, files0, mkdocs0, prev>>

\* Faulty variant of ItemSkip: an existing target is regenerated instead of skipped.
ItemSkip_Regenerates ==
    /\ pc = "loop"
    /\ i <= Len(data)
    /\ data[i].filename # NoneVal
    /\ Exists(data[i].filename)
    /\ recipes' = Append(recipes, [title |-> data[i].title, filename |-> data[i].filename])
    /\ reached' = Append(reached, [idx |-> i, existed |-> TRUE, was |-> files[data[i].filename]])
    /\ pc' = "generate"
    /\ UNCHANGED <<recipesYml, mkdocs, files, run, system_message, i, content, calls, writes,
                   navWrites, loopDone, failKind, failedAt, files0, mkdocs0, prev>>

\* Faulty variant of ItemSkip: the navigation entry is appended only after the skip test.
ItemSkip_NoAppend ==
    /\ pc = "loop"
    /\ i <= Len(data)
    /\ data[i].filename # NoneVal
    /\ Exists(data[i].filename)
    /\ reached' = Append(reached, [idx |-> i, existed |-> TRUE, was |-> files[data[i].filename]])
    /\ i' = i + 1
    /\ UNCHANGED <<recipesYml, mkdocs, files, run, pc, system_message, recipes, content, calls,
                   writes, navWrites, loopDone, failKind, failedAt, files0, mkdocs0, prev>>

\* Loop head, target exists: append the navigation entry and continue.
ItemSkip ==
    /\ pc = "loop"
    /\ i <= Len(data)
    /\ data[i].filename # NoneVal
    /\ Exists(data[i].filename)
    /\ recipes' = Append(recipes, [title |-> data[i].title, filename |-> data[i].filename])
    /\ reached' = Append(reached, [idx |-> i, existed |-> TRUE, was |-> files[data[i].filename]])
    /\ i' = i + 1
    /\ UNCHANGED <<recipesYml, mkdocs, files, run, pc, system_message, content, calls, writes,
                   navWrites, loopDone, failKind, failedAt, files0, mkdocs0, prev>>

\* Faulty variant of ItemGenerate: generation does not depend on the target being missing.
ItemGenerate_Unguarded ==
    /\ pc = "loop"
    /\ i <= Len(data)
    /\ data[i].filename # NoneVal
    /\ recipes' = Append(recipes, [title |-> data[i].title, filename |-> data[i].filename])
    /\ reached' = Append(reached, [idx |-> i, existed |-> Exists(data[i].filename),
                                   was |-> files[data[i].filename]])
    /\ pc' = "generate"
    /\ UNCHANGED <<recipesYml, mkdocs, files, run, system_message, i, content, calls, writes,
                   navWrites, loopDone, failKind, failedAt, files0, mkdocs0, prev>>

\* Loop head, target missing: append the navigation entry and go on to generate.
ItemGenerate ==
    /\ pc = "loop"
    /\ i <= Len(data)
    /\ data[i].filename # NoneVal
    /\ ~Exists(data[i].filename)
    /\ recipes' = Append(recipes, [title |-> data[i].title, filename |-> data[i].filename])
    /\ reached' = Append(reached, [idx |-> i, existed |-> FALSE, was |-> files[data[i].filename]])
    /\ pc' = "generate"
    /\ UNCHANGED <<recipesYml, mkdocs, files, run, system_message, i, content, calls, writes,
                   navWrites, loopDone, failKind, failedAt, files0, mkdocs0, prev>>

CallRecord(prompt, text) ==
    [idx |-> i, prompt |-> prompt, system |-> system_message, model |-> MODEL_NAME, text |-> text]

\* Faulty variant of GenerateOk: the item's title is sent as the user message.
GenerateOk_TitleAsPrompt ==
    /\ pc = "generate"
    /\ calls' = Append(calls, CallRecord(data[i].title, Completion(data[i].title)))
    /\ content' = Completion(data[i].title)
    /\ pc' = "write"
    /\ UNCHANGED <<recipesYml, mkdocs, files, run, system_message, i, recipes, writes,
                   navWrites, reached, loopDone, failKind, failedAt, files0, mkdocs0, prev>>

\* generate_recipe: client.complete returns.
GenerateOk ==
    /\ pc = "generate"
    /\ calls' = Append(calls, CallRecord(data[i].prompt, Completion(data[i].prompt)))
    /\ content' = Completion(data[i].prompt)
    /\ pc' = "write"
    /\ UNCHANGED <<recipesYml, mkdocs, files, run, system_message, i, recipes, writes,
                   navWrites, reached, loopDone, failKind, failedAt, files0, mkdocs0, prev>>

\* Faulty variant of GenerateFail: the error is caught and the loop goes on.
GenerateFail_Continue ==
    /\ pc = "generate"
    /\ calls' = Append(calls, CallRecord(data[i].prompt, <<>>))
    /\ failKind' = "GenerationError"
    /\ failedAt' = i
    /\ i' = i + 1
    /\ pc' = "loop"
    /\ UNCHANGED <<recipesYml, mkdocs, files, run, system_message, recipes, content, writes,
                   navWrites, reached, loopDone, files0, mkdocs0, prev>>

\* generate_recipe: client.complete raises; nothing catches it.
GenerateFail ==
    /\ pc = "generate"
    /\ calls' = Append(calls, CallRecord(data[i].prompt, <<>>))
    /\ Abort("GenerationError", i)
    /\ UNCHANGED <<recipesYml, mkdocs, files, run, system_message, i, recipes, content, writes,
                   navWrites, reached, loopDone, files0, mkdocs0, prev>>

\* write_text(target_path, content) succeeds.
WriteOk ==
    /\ pc = "write"
    /\ files' = [files EXCEPT ![data[i].filename] = OnDisk(content)]
    /\ writes' = Append(writes, [idx |-> i, filename |-> data[i].filename])
    /\ i' = i + 1
    /\ pc' = "loop"
    /\ UNCHANGED <<recipesYml, mkdocs, run, system_message, recipes, content, calls,
                   navWrites, reached, loopDone, failKind, failedAt, files0, mkdocs0, prev>>

\* write_text fails in mkdir or open: the file is not created.
WriteFailBeforeOpen ==
    /\ pc = "write"
    /\ Abort("IOError", i)
    /\ UNCHANGED <<recipesYml, mkdocs, files, run, system_message, i, recipes, content, calls,
                   writes, navWrites, reached, loopDone, files0, mkdocs0, prev>>

\* write_text fails in f.write after open(path, "w") created the file:
\* a proper prefix of the text (possibly nothing) is left on disk.
WriteFailAfterOpen ==
    /\ pc = "write"
    /\ \E part \in Prefixes(content) :
          files' = [files EXCEPT ![data[i].filename] = OnDisk(part)]
    /\ writes' = Append(writes, [idx |-> i, filename |-> data[i].filename])
    /\ Abort("IOError", i)
    /\ UNCHANGED <<recipesYml, mkdocs, run, system_message, i, recipes, content, calls,
                   navWrites, reached, loopDone, files0, mkdocs0, prev>>

\* The loop is exhausted: process_recipes returns recipes.
ProcessReturn ==
    /\ pc = "loop"
    /\ i > Len(data)
    /\ loopDone' = TRUE
    /\ pc' = "nav"
    /\ UNCHANGED <<recipesYml, mkdocs, files, run, system_message, i, recipes, content, calls,
                   writes, navWrites, reached, failKind, failedAt, files0, mkdocs0, prev>>

\* update_mkdocs_nav: mkdocs.yml is not a top-level dict.
NavValueError ==
    /\ pc = "nav"
    /\ load_yaml(mkdocs).kind # "dict"
    /\ Abort("ValueError", 0)
    /\ UNCHANGED <<recipesYml, mkdocs, files, run, system_message, i, recipes, content, calls,
                   writes, navWrites, reached, loopDone, files0, mkdocs0, prev>>

\* Faulty variant of NewMkdocs: only the nav field is dumped.
NewMkdocs_NavOnly(nav_items) == << <<"nav", NavList(nav_items)>> >>

\* The dict update_mkdocs_nav dumps: the loaded document with nav replaced.
NewMkdocs(nav_items) == SetKey(load_yaml(mkdocs).pairs, "nav", NavList(nav_items))

\* update_mkdocs_nav: nav replaced and the document written back.
NavWriteOk ==
    /\ pc = "nav"
    /\ load_yaml(mkdocs).kind = "dict"
    /\ mkdocs' = yaml_dump(NewMkdocs(recipes))
    /\ navWrites' = navWrites + 1
    /\ pc' = "done"
    /\ UNCHANGED <<recipesYml, files, run, system_message, i, recipes, content, calls,
                   writes, reached, loopDone, failKind, failedAt, files0, mkdocs0, prev>>

\* update_mkdocs_nav: write_text fails after mkdocs.yml was opened for writing.
NavWriteFail ==
    /\ pc = "nav"
    /\ load_yaml(mkdocs).kind = "dict"
    /\ \E part \in Prefixes(NewMkdocs(recipes)) :
          mkdocs' = IF part = <<>> THEN [kind |-> "empty", pairs |-> <<>>] ELSE yaml_dump(part)
    /\ navWrites' = navWrites + 1
    /\ Abort("IOError", 0)
    /\ UNCHANGED <<recipesYml, files, run, system_message, i, recipes, content, calls,
                   writes, reached, loopDone, files0, mkdocs0, prev>>

\* The script is run again after the previous run ended.
Rerun ==
    /\ pc \in {"done", "failed"}
    /\ run < MaxRuns
    /\ run' = run + 1
    /\ pc' = "start"
    /\ system_message' = <<>>
    /\ i' = 1
    /\ recipes' = <<>>
    /\ content' = <<>>
    /\ calls' = <<>>
    /\ writes' = <<>>
    /\ navWrites' = 0
    /\ reached' = <<>>
    /\ loopDone' = FALSE
    /\ failKind' = "none"
    /\ failedAt' = 0
    /\ files0' = files
    /\ mkdocs0' = mkdocs
    /\ prev' = [ran |-> TRUE, loopDone |-> loopDone,
                written |-> {writes[k].filename : k \in 1..Len(writes)}, ncalls |-> Len(calls)]
    /\ UNCHANGED <<recipesYml, mkdocs, files>>

Next ==
    \/ Main
    \/ ItemTypeError
    \/ ItemSkip
    \/ ItemGenerate
    \/ GenerateOk
    \/ GenerateFail
    \/ WriteOk
    \/ WriteFailBeforeOpen
    \/ WriteFailAfterOpen
    \/ ProcessReturn
    \/ NavValueError
    \/ NavWriteOk
    \/ NavWriteFail
    \/ Rerun

Spec == Init /\ [][Next]_vars

\* ------------------------------------------------------------- properties
CallsFor(j) == {k \in 1..Len(calls) : calls[k].idx = j}
WritesFor(j) == {k \in 1..Len(writes) : writes[k].idx = j}
RunEnded == pc \in {"done", "failed"}
NavEntry(j) == [title |-> data[j].title, filename |-> data[j].filename]
FirstWithFilename(j) == \A k \in 1..(j - 1) : data[k].filename # data[j].filename
Keys(d) == {d[k][1] : k \in 1..Len(d)}
HasKey(d, key) == \E k \in 1..Len(d) : d[k][1] = key
GetKey(d, key) == d[CHOOSE k \in 1..Len(d) : d[k][1] = key][2]
Skipped == {k \in 1..Len(reached) : reached[k].existed}
\* Every item of the list has its three fields.
WellFormed ==
    \A j \in 1..Len(data) : NoneVal \notin {data[j].title, data[j].filename, data[j].prompt}

\* C1 as stated: an item whose file exists when it is reached causes no client
\* call and no write, the file's content after the run equals its content
\* before the run, and the item is in the navigation list.  Stated for lists
\* whose items have all their fields, so that no missing field is involved.
C1_Original ==
    WellFormed => \A k \in Skipped :
        LET j == reached[k].idx
            f == data[j].filename
        IN /\ CallsFor(j) = {}
           /\ WritesFor(j) = {}
           /\ RunEnded => files[f] = files0[f]
           /\ \E e \in 1..Len(recipes) : recipes[e] = NavEntry(j)

\* C1 amended: an item whose file exists when it is reached causes no client
\* call and no write, the file keeps the content it had when the item was
\* reached, every file that existed before the run keeps its content, and the
\* item is in the navigation list.
C1_SkipExisting ==
    /\ \A k \in Skipped :
          LET j == reached[k].idx
              f == data[j].filename
          IN /\ CallsFor(j) = {}
             /\ WritesFor(j) = {}
             /\ files[f] = reached[k].was
             /\ \E e \in 1..Len(recipes) : recipes[e] = NavEntry(j)
    /\ \A f \in Filenames : files0[f].exists => files[f] = files0[f]

C1_Witness ==
    /\ pc = "done"
    /\ calls # <<>>
    /\ \E k \in Skipped : files0[data[reached[k].idx].filename].exists

\* C2: a run that follows a run in which process_recipes returned makes no
\* client call and writes no output file; every target file exists.
C2_SecondRunNoCalls ==
    (prev.ran /\ prev.loopDone) =>
        /\ calls = <<>>
        /\ writes = <<>>
        /\ \A j \in 1..Len(data) : Exists(data[j].filename)

C2_Witness ==
    /\ prev.ran
    /\ prev.loopDone
    /\ prev.ncalls > 0
    /\ loopDone

\* C3: the list process_recipes returns, and the nav sequence written to
\* mkdocs.yml, hold one entry per work item, entry j being title_j ->
\* filename_j, in input order.
C3_NavMatchesInput ==
    /\ loopDone => recipes = [j \in 1..Len(data) |-> NavEntry(j)]
    /\ pc = "done" =>
          /\ load_yaml(mkdocs).kind = "dict"
          /\ HasKey(load_yaml(mkdocs).pairs, "nav")
          /\ GetKey(load_yaml(mkdocs).pairs, "nav")
                = [j \in 1..Len(data) |-> <<data[j].title, data[j].filename>>]

C3_Witness ==
    /\ pc = "done"
    /\ Skipped # {}
    /\ writes # <<>>
    /\ Len(data) >= 2

\* The file of item j holds the text of the one client call made for item j,
\* a call with item j's prompt and the shared system message.
GeneratedFor(j) ==
    /\ files[data[j].filename].exists
    /\ Cardinality(CallsFor(j)) = 1
    /\ \A k \in CallsFor(j) :
          /\ calls[k].prompt = data[j].prompt
          /\ calls[k].system = load_and_combine_system_messages(BaseFile, ContextFile)
          /\ files[data[j].filename].text = calls[k].text

\* C4 as stated: after process_recipes returns, every item whose file did not
\* exist before the run has a file holding the text returned for its own prompt.
\* Stated for lists whose items have all their fields.
C4_Original ==
    (WellFormed /\ loopDone) => \A j \in 1..Len(data) : ~files0[data[j].filename].exists => GeneratedFor(j)

\* C4 amended: the same, for every item that is the first of the list with
\* its filename.
C4_GeneratedContent ==
    loopDone =>
        \A j \in 1..Len(data) :
            (~files0[data[j].filename].exists /\ FirstWithFilename(j)) => GeneratedFor(j)

C4_Witness ==
    /\ loopDone
    /\ Len(calls) >= 2
    /\ \A j \in 1..Len(data) : ~files0[data[j].filename].exists

\* C5: when recipes.yml is not a top-level list, main fails with ValueError
\* before any client call, any output write and any access to mkdocs.yml.
C5_MalformedSourceFailsFirst ==
    recipesYml.kind # "list" =>
        /\ pc \in {"start", "failed"}
        /\ pc = "failed" => failKind = "ValueError"
        /\ calls = <<>>
        /\ writes = <<>>
        /\ navWrites = 0
        /\ files = files0
        /\ mkdocs = mkdocs0

C5_Witness ==
    /\ recipesYml.kind # "list"
    /\ pc = "failed"

\* C6 as stated: no None is substituted for a missing field: no client call
\* carries a None prompt, no navigation entry carries a None title, and the
\* loop never gets past an item that lacks a field.
C6_FailFast ==
    /\ \A k \in 1..Len(calls) : calls[k].prompt # NoneVal
    /\ \A k \in 1..Len(recipes) : recipes[k].title # NoneVal
    /\ \A j \in 1..Len(data) :
          j < i => NoneVal \notin {data[j].title, data[j].filename, data[j].prompt}

\* C7: when mkdocs.yml is a top-level dict, after update_mkdocs_nav its nav is
\* the freshly built sequence and every other field keeps key and value; when
\* it is not, the call fails with ValueError and mkdocs.yml is not written.
C7_OnlyNavChanges ==
    LET old == load_yaml(mkdocs0)
        new == load_yaml(mkdocs)
    IN /\ pc = "done" =>
            /\ old.kind = "dict"
            /\ new.kind = "dict"
            /\ HasKey(new.pairs, "nav")
            /\ GetKey(new.pairs, "nav") = NavList(recipes)
            /\ Keys(new.pairs) \ {"nav"} = Keys(old.pairs) \ {"nav"}
            /\ \A key \in Keys(old.pairs) \ {"nav"} :
                  GetKey(new.pairs, key) = GetKey(old.pairs, key)
       /\ (loopDone /\ old.kind # "dict") =>
            /\ pc \in {"nav", "failed"}
            /\ pc = "failed" => failKind = "ValueError"
            /\ navWrites = 0
            /\ mkdocs = mkdocs0

C7_Witness ==
    /\ pc = "done"
    /\ HasKey(load_yaml(mkdocs0).pairs, "nav")
    /\ Keys(load_yaml(mkdocs0).pairs) # {"nav"}
    /\ recipes # <<>>

\* The state of a run aborted at item failedAt by the client or by a write.
C8_Aborted ==
    (failKind \in {"GenerationError", "IOError"} /\ failedAt > 0) =>
        /\ pc = "failed"
        /\ i = failedAt
        /\ ~loopDone
        /\ navWrites = 0
        /\ mkdocs = mkdocs0
        /\ \A k \in 1..Len(calls) : calls[k].idx <= failedAt
        /\ Cardinality(CallsFor(failedAt)) = 1
        /\ \A k \in 1..Len(writes) : writes[k].idx <= failedAt
        /\ \A k \in 1..Len(writes) :
              writes[k].idx < failedAt =>
                  \E c \in CallsFor(writes[k].idx) :
                      files[writes[k].filename] = OnDisk(calls[c].text)

C8_NavWrittenOnceAfterLoop ==
    /\ navWrites <= 1
    /\ navWrites > 0 => loopDone /\ i > Len(data)

\* C8: a failure of the client call or of an output write at item k aborts the
\* run: no later item is processed, the call is not retried, mkdocs.yml is not
\* written, the files written before k stay, and from the aborted state the
\* only step is a new run; mkdocs.yml is written at most once per run and only
\* after the loop has finished.
C8_FailureAborts ==
    /\ [](C8_Aborted /\ C8_NavWrittenOnceAfterLoop)
    /\ [][pc = "failed" =>
            /\ run' = run + 1
            /\ pc' = "start"
            /\ files' = files
            /\ mkdocs' = mkdocs]_vars

C8_Witness ==
    /\ failKind = "GenerationError"
    /\ failedAt >= 2
    /\ writes # <<>>

\* C9: in a run that follows an aborted run, a client call is made for exactly
\* the items whose file is missing when they are reached, none for an item
\* whose file the aborted run wrote, and when the loop completes every item
\* has a file and the navigation list is full.
C9_ResumeAfterAbort ==
    (prev.ran /\ ~prev.loopDone) =>
        /\ \A j \in 1..Len(data) :
              j < i => (CallsFor(j) # {} <=>
                            (~files0[data[j].filename].exists /\ FirstWithFilename(j)))
        /\ \A k \in 1..Len(calls) :
              LET j == calls[k].idx
              IN /\ ~files0[data[j].filename].exists
                 /\ FirstWithFilename(j)
                 /\ data[j].filename \notin prev.written
                 /\ Cardinality(CallsFor(j)) = 1
        /\ loopDone =>
              /\ \A j \in 1..Len(data) : Exists(data[j].filename)
              /\ Len(recipes) = Len(data)

C9_Witness ==
    /\ prev.ran
    /\ ~prev.loopDone
    /\ prev.written # {}
    /\ loopDone
    /\ calls # <<>>

\* C10 as stated: an output file that exists and was created by the pipeline
\* holds the complete text the client returned for a prompt.  Stated for lists
\* whose items have all their fields.
C10_NoPartialFile ==
    WellFormed => \A f \in Filenames :
        (files[f].exists /\ files[f].text # OldText) =>
            \E j \in 1..Len(data) : files[f].text = Completion(data[j].prompt)

====
